---- MODULE Spec2Model ----
(***************************************************************************)
(* PantryPilot: the smart-inventory core (unit table, ingredient parser,   *)
(* fuzzy matcher) of backend/utils/smart_inventory.py and the mark-cooked  *)
(* deduction handler of backend/routers/recipes.py.                        *)
(*                                                                         *)
(* Strings are sequences of one-character strings.  Python floats are      *)
(* modelled by exact rationals <<n, d>> (d > 0, lowest terms); rounding of *)
(* IEEE doubles is not modelled.  Python's None is the value None below.   *)
(***************************************************************************)
EXTENDS Integers, Sequences, FiniteSets, TLC

VARIABLES
    inventory,   \* table inventory_items: id -> [user_id, item_name, quantity, unit]
    history,     \* table recipe_history: id -> [user_id, recipe_json, servings, is_cooked]
    sess,        \* per request: the SQLAlchemy session of one mark-cooked call
    resp,        \* per request: the HTTP status of the last finished call (0: none yet)
    ncalls,      \* number of mark-cooked calls started so far
    arg,         \* argument of a direct call of a smart_inventory function
    ret,         \* its return value
    called,      \* whether the direct call has returned
    profiles,    \* table user_profiles: user -> no row, or the row's recipe_generation_count
    preferences, \* table recipe_preferences: id -> [user_id, generation_number, variants,
                 \* chosen_variant, rejected_variant, chosen_recipe_history_id, skipped]
    notifications, \* table retraining_notifications: id -> [user_id, approved, training_started]
    alerts       \* the calls of send_slack_alert so far: [user_id, sent]

vars ==
    <<inventory, history, sess, resp, ncalls, arg, ret, called, profiles, preferences,
      notifications, alerts>>

-----------------------------------------------------------------------------
(* Characters and strings                                                  *)

None == <<"<None>">>

Digits == {"0", "1", "2", "3", "4", "5", "6", "7", "8", "9"}

DigitVal == [c \in Digits |->
    CASE c = "0" -> 0 [] c = "1" -> 1 [] c = "2" -> 2 [] c = "3" -> 3
      [] c = "4" -> 4 [] c = "5" -> 5 [] c = "6" -> 6 [] c = "7" -> 7
      [] c = "8" -> 8 [] c = "9" -> 9]

LowerOfUpper == [A |-> "a", B |-> "b", C |-> "c", D |-> "d", E |-> "e",
    F |-> "f", G |-> "g", H |-> "h", I |-> "i", J |-> "j", K |-> "k",
    L |-> "l", M |-> "m", N |-> "n", O |-> "o", P |-> "p", Q |-> "q",
    R |-> "r", S |-> "s", T |-> "t", U |-> "u", V |-> "v", W |-> "w",
    X |-> "x", Y |-> "y", Z |-> "z"]

UpperLetters == DOMAIN LowerOfUpper

LowerLetters == {LowerOfUpper[c] : c \in UpperLetters}

\* regex class [a-zA-Z]
IsLetter(c) == c \in UpperLetters \cup LowerLetters

\* regex class [\d\.\/]
IsQtyChar(c) == c \in Digits \cup {".", "/"}

\* regex class \s and the characters str.strip() removes (the model's
\* alphabet holds the blank only)
IsSpace(c) == c = " "

LowerChar(c) == IF c \in UpperLetters THEN LowerOfUpper[c] ELSE c

\* str.lower()
Lower(s) == [i \in 1..Len(s) |-> LowerChar(s[i])]

\* s[i:] and s[:j] with 1-based, inclusive positions
From(s, i) == SubSeq(s, i, Len(s))

RECURSIVE LStrip(_)
LStrip(s) == IF s # <<>> /\ IsSpace(Head(s)) THEN LStrip(Tail(s)) ELSE s

RECURSIVE RStrip(_)
RStrip(s) ==
    IF s # <<>> /\ IsSpace(s[Len(s)]) THEN RStrip(SubSeq(s, 1, Len(s) - 1)) ELSE s

\* str.strip()
Strip(s) == RStrip(LStrip(s))

\* the length of the longest prefix of s[i:] whose characters satisfy the class
RECURSIVE RunQty(_, _)
RunQty(s, i) == IF i <= Len(s) /\ IsQtyChar(s[i]) THEN 1 + RunQty(s, i + 1) ELSE 0

RECURSIVE RunSpace(_, _)
RunSpace(s, i) == IF i <= Len(s) /\ IsSpace(s[i]) THEN 1 + RunSpace(s, i + 1) ELSE 0

RECURSIVE RunLetter(_, _)
RunLetter(s, i) == IF i <= Len(s) /\ IsLetter(s[i]) THEN 1 + RunLetter(s, i + 1) ELSE 0

-----------------------------------------------------------------------------
(* Exact rationals for Python floats                                       *)

Abs(n) == IF n < 0 THEN -n ELSE n

RECURSIVE Gcd(_, _)
Gcd(a, b) == IF b = 0 THEN a ELSE Gcd(b, a % b)

\* n/d in lowest terms with a positive denominator (d # 0)
Rat(n, d) ==
    LET g == Gcd(Abs(n), Abs(d))
        s == IF d < 0 THEN -1 ELSE 1
    IN  <<(s * n) \div g, (s * d) \div g>>

RInt(n) == <<n, 1>>

RMul(x, y) ==
    LET g1 == Gcd(Abs(x[1]), y[2])
        g2 == Gcd(Abs(y[1]), x[2])
    IN  Rat((x[1] \div g1) * (y[1] \div g2), (x[2] \div g2) * (y[2] \div g1))

\* x / y for y # 0
RDiv(x, y) == RMul(x, Rat(y[2], y[1]))

RSub(x, y) ==
    LET g == Gcd(x[2], y[2])
    IN  Rat(x[1] * (y[2] \div g) - y[1] * (x[2] \div g), (x[2] \div g) * y[2])

RAdd(x, y) == RSub(x, <<-y[1], y[2]>>)

RLess(x, y) == RSub(x, y)[1] < 0

RLeq(x, y) == RSub(x, y)[1] <= 0

\* Python's max(0, x)
Max0(x) == IF RLess(RInt(0), x) THEN x ELSE RInt(0)

-----------------------------------------------------------------------------
(* Unit table (smart_inventory.py, lines 5-46)                             *)

\* the canonical unit names
Unit ==
    [lb |-> <<"l", "b">>,
     oz |-> <<"o", "z">>,
     kg |-> <<"k", "g">>,
     g |-> <<"g">>,
     cup |-> <<"c", "u", "p">>,
     tbsp |-> <<"t", "b", "s", "p">>,
     tsp |-> <<"t", "s", "p">>,
     ml |-> <<"m", "l">>,
     l |-> <<"l">>,
     floz |-> <<"f", "l", " ", "o", "z">>,
     pcs |-> <<"p", "c", "s">>,
     can |-> <<"c", "a", "n">>,
     bunch |-> <<"b", "u", "n", "c", "h">>,
     head |-> <<"h", "e", "a", "d">>,
     clove |-> <<"c", "l", "o", "v", "e">>]

\* the dict UNIT_MAPPINGS as the sequence of its (key, value) items
UNIT_MAPPINGS == <<
    <<Unit.lb, Unit.lb>>, <<<<"l", "b", "s">>, Unit.lb>>,
    <<<<"p", "o", "u", "n", "d">>, Unit.lb>>, <<<<"p", "o", "u", "n", "d", "s">>, Unit.lb>>,
    <<Unit.oz, Unit.oz>>, <<<<"o", "u", "n", "c", "e">>, Unit.oz>>,
    <<<<"o", "u", "n", "c", "e", "s">>, Unit.oz>>,
    <<Unit.kg, Unit.kg>>, <<<<"k", "i", "l", "o", "g", "r", "a", "m">>, Unit.kg>>,
    <<<<"k", "i", "l", "o", "g", "r", "a", "m", "s">>, Unit.kg>>,
    <<Unit.g, Unit.g>>, <<<<"g", "r", "a", "m">>, Unit.g>>, <<<<"g", "r", "a", "m", "s">>, Unit.g>>,
    <<Unit.cup, Unit.cup>>, <<<<"c", "u", "p", "s">>, Unit.cup>>,
    <<Unit.tbsp, Unit.tbsp>>,
    <<<<"t", "a", "b", "l", "e", "s", "p", "o", "o", "n">>, Unit.tbsp>>,
    <<<<"t", "a", "b", "l", "e", "s", "p", "o", "o", "n", "s">>, Unit.tbsp>>,
    <<Unit.tsp, Unit.tsp>>, <<<<"t", "e", "a", "s", "p", "o", "o", "n">>, Unit.tsp>>,
    <<<<"t", "e", "a", "s", "p", "o", "o", "n", "s">>, Unit.tsp>>,
    <<Unit.ml, Unit.ml>>,
    <<<<"m", "i", "l", "l", "i", "l", "i", "t", "e", "r">>, Unit.ml>>,
    <<<<"m", "i", "l", "l", "i", "l", "i", "t", "e", "r", "s">>, Unit.ml>>,
    <<Unit.l, Unit.l>>, <<<<"l", "i", "t", "e", "r">>, Unit.l>>,
    <<<<"l", "i", "t", "e", "r", "s">>, Unit.l>>,
    <<Unit.floz, Unit.floz>>,
    <<<<"f", "l", "u", "i", "d", " ", "o", "u", "n", "c", "e">>, Unit.floz>>,
    <<<<"p", "c">>, Unit.pcs>>, <<Unit.pcs, Unit.pcs>>,
    <<<<"p", "i", "e", "c", "e">>, Unit.pcs>>, <<<<"p", "i", "e", "c", "e", "s">>, Unit.pcs>>,
    <<<<"u", "n", "i", "t">>, Unit.pcs>>, <<<<"u", "n", "i", "t", "s">>, Unit.pcs>>,
    <<Unit.can, Unit.can>>, <<<<"c", "a", "n", "s">>, Unit.can>>,
    <<Unit.bunch, Unit.bunch>>, <<<<"b", "u", "n", "c", "h", "e", "s">>, Unit.bunch>>,
    <<Unit.head, Unit.head>>, <<<<"h", "e", "a", "d", "s">>, Unit.head>>,
    <<Unit.clove, Unit.clove>>, <<<<"c", "l", "o", "v", "e", "s">>, Unit.clove>> >>

\* the dict WEIGHT_TO_G: (key, grams per unit)
WEIGHT_TO_G == <<
    <<Unit.g, <<1, 1>>>>, <<Unit.kg, <<1000, 1>>>>,
    <<Unit.lb, <<453592, 1000>>>>, <<Unit.oz, <<283495, 10000>>>> >>

\* the dict VOLUME_TO_ML: (key, millilitres per unit)
VOLUME_TO_ML == <<
    <<Unit.ml, <<1, 1>>>>, <<Unit.l, <<1000, 1>>>>, <<Unit.cup, <<236588, 1000>>>>,
    <<Unit.tbsp, <<147868, 10000>>>>, <<Unit.tsp, <<492892, 100000>>>>,
    <<Unit.floz, <<295735, 10000>>>> >>

\* key in d
HasKey(d, k) == \E i \in 1..Len(d) : d[i][1] = k

\* d[key]
Lookup(d, k) == d[CHOOSE i \in 1..Len(d) : d[i][1] = k][2]

\* a conversion factor as a rational
Factor(d, k) == LET f == Lookup(d, k) IN Rat(f[1], f[2])

\* normalize_unit(unit_str): None for a missing or empty string, else the
\* table's key for the lower-cased, stripped text, else that text itself
normalize_unit(unit_str) ==
    IF unit_str = None \/ unit_str = <<>>
    THEN None
    ELSE LET key == Strip(Lower(unit_str))
         IN  IF HasKey(UNIT_MAPPINGS, key) THEN Lookup(UNIT_MAPPINGS, key) ELSE key

\* Python truthiness of an optional string
Truthy(s) == s # None /\ s # <<>>

\* mutant of convert_unit: equal keys are not returned unchanged, so only the
\* weight and volume tables convert
convert_unit_tables_only(qty, from_unit, to_unit) ==
    IF ~Truthy(normalize_unit(from_unit)) \/ ~Truthy(normalize_unit(to_unit)) THEN None
    ELSE IF HasKey(WEIGHT_TO_G, normalize_unit(from_unit))
            /\ HasKey(WEIGHT_TO_G, normalize_unit(to_unit))
         THEN RDiv(RMul(qty, Factor(WEIGHT_TO_G, normalize_unit(from_unit))),
                   Factor(WEIGHT_TO_G, normalize_unit(to_unit)))
    ELSE IF HasKey(VOLUME_TO_ML, normalize_unit(from_unit))
            /\ HasKey(VOLUME_TO_ML, normalize_unit(to_unit))
         THEN RDiv(RMul(qty, Factor(VOLUME_TO_ML, normalize_unit(from_unit))),
                   Factor(VOLUME_TO_ML, normalize_unit(to_unit)))
    ELSE None

\* mutant of convert_unit: two units that are in neither table convert one to
\* one, as if all count units were one family
convert_unit_count_family(qty, from_unit, to_unit) ==
    IF ~Truthy(normalize_unit(from_unit)) \/ ~Truthy(normalize_unit(to_unit)) THEN None
    ELSE IF HasKey(WEIGHT_TO_G, normalize_unit(from_unit))
            \/ HasKey(VOLUME_TO_ML, normalize_unit(from_unit))
            \/ HasKey(WEIGHT_TO_G, normalize_unit(to_unit))
            \/ HasKey(VOLUME_TO_ML, normalize_unit(to_unit))
         THEN convert_unit_tables_only(qty, from_unit, to_unit)
    ELSE qty

\* convert_unit(qty, from_unit, to_unit): None when the units do not convert
convert_unit(qty, from_unit, to_unit) ==
    LET from_u == normalize_unit(from_unit)
        to_u == normalize_unit(to_unit)
    IN  IF ~Truthy(from_u) \/ ~Truthy(to_u) THEN None
        ELSE IF from_u = to_u THEN qty
        ELSE IF HasKey(WEIGHT_TO_G, from_u) /\ HasKey(WEIGHT_TO_G, to_u)
             THEN RDiv(RMul(qty, Factor(WEIGHT_TO_G, from_u)), Factor(WEIGHT_TO_G, to_u))
        ELSE IF HasKey(VOLUME_TO_ML, from_u) /\ HasKey(VOLUME_TO_ML, to_u)
             THEN RDiv(RMul(qty, Factor(VOLUME_TO_ML, from_u)), Factor(VOLUME_TO_ML, to_u))
        ELSE None

-----------------------------------------------------------------------------
(* Ingredient parser (smart_inventory.py, lines 54-99)                     *)

RECURSIVE Count(_, _)
Count(s, c) == IF s = <<>> THEN 0 ELSE (IF Head(s) = c THEN 1 ELSE 0) + Count(Tail(s), c)

\* position of the first c in s (c occurs in s)
IndexOf(s, c) == CHOOSE i \in 1..Len(s) : s[i] = c /\ \A j \in 1..(i - 1) : s[j] # c

RECURSIVE DigitsVal(_)
DigitsVal(s) ==
    IF s = <<>> THEN 0 ELSE 10 * DigitsVal(SubSeq(s, 1, Len(s) - 1)) + DigitVal[s[Len(s)]]

RECURSIVE Pow10(_)
Pow10(k) == IF k = 0 THEN 1 ELSE 10 * Pow10(k - 1)

\* whether float(s) succeeds, for s over digits, "." and "/"
IsFloat(s) ==
    /\ \A i \in 1..Len(s) : s[i] \in Digits \cup {"."}
    /\ Count(s, ".") <= 1
    /\ \E i \in 1..Len(s) : s[i] \in Digits

\* float(s) for such an s
FloatOf(s) ==
    IF Count(s, ".") = 0 THEN RInt(DigitsVal(s))
    ELSE LET dot == IndexOf(s, ".")
             whole == SubSeq(s, 1, dot - 1)
             frac == From(s, dot + 1)
         IN  RAdd(RInt(DigitsVal(whole)), Rat(DigitsVal(frac), Pow10(Len(frac))))

\* mutant of parse_qty: no except clause, the exception of a malformed number
\* escapes (None stands for the raised exception)
parse_qty_raising(qs) ==
    IF Count(qs, "/") > 0
    THEN IF Count(qs, "/") # 1 THEN None
         ELSE IF ~IsFloat(SubSeq(qs, 1, IndexOf(qs, "/") - 1))
                 \/ ~IsFloat(From(qs, IndexOf(qs, "/") + 1)) THEN None
         ELSE IF FloatOf(From(qs, IndexOf(qs, "/") + 1))[1] = 0 THEN None
         ELSE RDiv(FloatOf(SubSeq(qs, 1, IndexOf(qs, "/") - 1)),
                   FloatOf(From(qs, IndexOf(qs, "/") + 1)))
    ELSE IF IsFloat(qs) THEN FloatOf(qs) ELSE None

\* parse_qty(qs): every exception (a part that is no float, a number of
\* parts other than two, a zero denominator) gives 1.0
parse_qty(qs) ==
    IF Count(qs, "/") > 0
    THEN IF Count(qs, "/") # 1 THEN RInt(1)
         ELSE LET slash == IndexOf(qs, "/")
                  num == SubSeq(qs, 1, slash - 1)
                  den == From(qs, slash + 1)
              IN  IF ~IsFloat(num) \/ ~IsFloat(den) THEN RInt(1)
                  ELSE IF FloatOf(den)[1] = 0 THEN RInt(1)
                  ELSE RDiv(FloatOf(num), FloatOf(den))
    ELSE IF IsFloat(qs) THEN FloatOf(qs) ELSE RInt(1)

\* x or default, for an optional string x
OrElse(x, default) == IF Truthy(x) THEN x ELSE default

\* re.search(r"^\s*([\d\.\/]+)\s*([a-zA-Z]+)?\s+(.*)", text) on stripped text:
\* None, or the groups <<qty_str, unit_str, name_str>>.  The three character
\* classes are disjoint, so the greedy match takes the whole run of quantity
\* characters; it takes the letters as the unit when blanks follow them, and
\* otherwise gives up the unit and needs a blank right after the quantity.
PrefixMatch(text) ==
    LET q == RunQty(text, 1)
        w == RunSpace(text, q + 1)
        l == RunLetter(text, q + w + 1)
        w2 == RunSpace(text, q + w + l + 1)
    IN  IF q = 0 THEN None
        ELSE IF l >= 1 /\ w2 >= 1
             THEN <<SubSeq(text, 1, q), SubSeq(text, q + w + 1, q + w + l),
                    From(text, q + w + l + w2 + 1)>>
        ELSE IF w >= 1 THEN <<SubSeq(text, 1, q), None, From(text, q + w + 1)>>
        ELSE None

RECURSIVE RunNoParen(_, _)
RunNoParen(s, i) ==
    IF i <= Len(s) /\ s[i] \notin {"(", ")"} THEN 1 + RunNoParen(s, i + 1) ELSE 0

\* re.search(r"^(?P<name>[^()]+)\(\s*(?P<qty>[\d\.\/]+)\s*(?P<unit>[a-zA-Z]+)", text):
\* None, or the groups <<name, qty, unit>>
ParenMatch(text) ==
    LET n == RunNoParen(text, 1)
        w == RunSpace(text, n + 2)
        q == RunQty(text, n + 2 + w)
        w2 == RunSpace(text, n + 2 + w + q)
        l == RunLetter(text, n + 2 + w + q + w2)
    IN  IF n >= 1 /\ n < Len(text) /\ text[n + 1] = "(" /\ q >= 1 /\ l >= 1
        THEN <<SubSeq(text, 1, n), SubSeq(text, n + 2 + w, n + 1 + w + q),
               SubSeq(text, n + 2 + w + q + w2, n + 1 + w + q + w2 + l)>>
        ELSE None

\* whether r"([\d\.\/]+)\s*([a-zA-Z]+)" matches at position i
InlineAt(text, i) ==
    LET q == RunQty(text, i)
    IN  q >= 1 /\ RunLetter(text, i + q + RunSpace(text, i + q)) >= 1

\* re.search(r"([\d\.\/]+)\s*([a-zA-Z]+)", text): None, or the groups of the
\* leftmost match <<qty, unit>>
InlineMatch(text) ==
    IF \E i \in 1..Len(text) : InlineAt(text, i)
    THEN LET i == CHOOSE k \in 1..Len(text) :
                      InlineAt(text, k) /\ \A j \in 1..(k - 1) : ~InlineAt(text, j)
             q == RunQty(text, i)
             w == RunSpace(text, i + q)
             l == RunLetter(text, i + q + w)
         IN  <<SubSeq(text, i, i + q - 1), SubSeq(text, i + q + w, i + q + w + l - 1)>>
    ELSE None

Triple(qty, unit, name_str) == [quantity |-> qty, unit |-> unit, name |-> name_str]

\* the leading-prefix branch (lines 76-83), m the groups of the match
ParsePrefix(m) ==
    LET qty_str == m[1]
        unit_str == m[2]
        name_str == m[3]
        unit == OrElse(normalize_unit(unit_str), Unit.pcs)
    IN  IF Truthy(unit_str) /\ normalize_unit(unit_str) = None
        THEN Triple(parse_qty(qty_str), Unit.pcs, Strip(unit_str \o <<" ">> \o name_str))
        ELSE Triple(parse_qty(qty_str), unit, Strip(name_str))

\* mutant of parse_ingredient: the inline rule is tried before the
\* parenthetical rule
parse_ingredient_inline_first(ingredient_text) ==
    IF PrefixMatch(Strip(ingredient_text)) # None
    THEN ParsePrefix(PrefixMatch(Strip(ingredient_text)))
    ELSE IF InlineMatch(Strip(ingredient_text)) # None
         THEN Triple(parse_qty(InlineMatch(Strip(ingredient_text))[1]),
                     OrElse(normalize_unit(InlineMatch(Strip(ingredient_text))[2]), Unit.pcs),
                     Strip(ingredient_text))
    ELSE Triple(RInt(1), Unit.pcs, Strip(ingredient_text))

\* parse_ingredient(ingredient_text) for a string
parse_ingredient(ingredient_text) ==
    LET text == Strip(ingredient_text)
        prefix == PrefixMatch(text)
        paren == ParenMatch(text)
        inline == InlineMatch(text)
    IN  IF prefix # None THEN ParsePrefix(prefix)
        ELSE IF paren # None
             THEN Triple(parse_qty(paren[2]), OrElse(normalize_unit(paren[3]), Unit.pcs),
                         Strip(Strip(paren[1])))
        ELSE IF inline # None
             THEN Triple(parse_qty(inline[1]), OrElse(normalize_unit(inline[2]), Unit.pcs),
                         Strip(text))
        ELSE Triple(RInt(1), Unit.pcs, Strip(text))

-----------------------------------------------------------------------------
(* Fuzzy matcher (smart_inventory.py, lines 127-170)                       *)

\* norm_text(s): re.sub(r"[^a-z0-9\s]", " ", str(s).lower()).strip()
norm_text(s) ==
    LET low == Lower(s)
    IN  Strip([i \in 1..Len(low) |->
                  IF low[i] \in LowerLetters \cup Digits \/ IsSpace(low[i])
                  THEN low[i] ELSE " "])

\* the length of the longest common run of a[i..ahi] and b[j..bhi] from i and j
RECURSIVE CommonLen(_, _, _, _, _, _)
CommonLen(a, i, ahi, b, j, bhi) ==
    IF i <= ahi /\ j <= bhi /\ a[i] = b[j]
    THEN 1 + CommonLen(a, i + 1, ahi, b, j + 1, bhi)
    ELSE 0

SetMax(S) == CHOOSE x \in S : \A y \in S : y <= x

SetMin(S) == CHOOSE x \in S : \A y \in S : x <= y

\* difflib.SequenceMatcher.find_longest_match without junk: <<i, j, k>> with
\* a[i..i+k-1] = b[j..j+k-1], k maximal, then i minimal, then j minimal
\* (k = 0 when the two ranges share no character)
find_longest_match(a, alo, ahi, b, blo, bhi) ==
    LET k == SetMax({0} \cup {CommonLen(a, i, ahi, b, j, bhi) : i \in alo..ahi, j \in blo..bhi})
    IN  IF k = 0 THEN <<alo, blo, 0>>
        ELSE LET i == SetMin({x \in alo..ahi :
                         \E y \in blo..bhi : CommonLen(a, x, ahi, b, y, bhi) = k})
                 j == SetMin({y \in blo..bhi : CommonLen(a, i, ahi, b, y, bhi) = k})
             IN  <<i, j, k>>

\* the total size of difflib's get_matching_blocks: the longest block, then
\* the blocks to its left and to its right
RECURSIVE MatchingSize(_, _, _, _, _, _)
MatchingSize(a, alo, ahi, b, blo, bhi) ==
    IF alo > ahi \/ blo > bhi THEN 0
    ELSE LET m == find_longest_match(a, alo, ahi, b, blo, bhi)
         IN  IF m[3] = 0 THEN 0
             ELSE m[3] + MatchingSize(a, alo, m[1] - 1, b, blo, m[2] - 1)
                       + MatchingSize(a, m[1] + m[3], ahi, b, m[2] + m[3], bhi)

\* SequenceMatcher(None, a, b).ratio() for non-empty a, b
Ratio(a, b) == Rat(2 * MatchingSize(a, 1, Len(a), b, 1, Len(b)), Len(a) + Len(b))

\* similarity(a, b)
similarity(a, b) ==
    LET a_norm == norm_text(a)
        b_norm == norm_text(b)
    IN  IF a_norm = <<>> \/ b_norm = <<>> THEN RInt(0) ELSE Ratio(a_norm, b_norm)

\* the default of min_score and of token_threshold, 0.45
DEFAULT_MIN_SCORE == <<9, 20>>

\* the loop of find_best_inventory_match over item_names[i..]: best is the
\* position of the best item so far (0: None)
RECURSIVE BestFrom(_, _, _, _, _)
\* mutant of BestFrom: "score >= best_score" in place of "score > best_score",
\* so the last item attaining the maximum is kept
BestFromLast(item_names, ing_norm, i, best, best_score) ==
    LET scores == [k \in i..Len(item_names) |-> similarity(item_names[k], ing_norm)]
        ge == {k \in i..Len(item_names) :
                  /\ RLeq(best_score, scores[k])
                  /\ \A j \in i..Len(item_names) : RLeq(scores[j], scores[k])}
    IN  IF ge = {} THEN <<best, best_score>>
        ELSE <<SetMax(ge), scores[SetMax(ge)]>>

BestFrom(item_names, ing_norm, i, best, best_score) ==
    IF i > Len(item_names) THEN <<best, best_score>>
    ELSE LET score == similarity(item_names[i], ing_norm)
         IN  IF RLess(best_score, score)
             THEN BestFrom(item_names, ing_norm, i + 1, i, score)
             ELSE BestFrom(item_names, ing_norm, i + 1, best, best_score)

\* find_best_inventory_match(inventory_items, ingredient_name, min_score) on
\* the items' names; the returned item is given by its position in the list,
\* 0 for None
find_best_inventory_match(item_names, ingredient_name, min_score) ==
    LET r == BestFrom(item_names, norm_text(ingredient_name), 1, 0, RInt(0))
    IN  IF RLeq(min_score, r[2]) THEN r ELSE <<0, RInt(0)>>

\* whether s[i..j] is a maximal run of characters that are not blanks
IsTokenAt(s, i, j) ==
    /\ i <= j
    /\ \A k \in i..j : ~IsSpace(s[k])
    /\ i = 1 \/ IsSpace(s[i - 1])
    /\ j = Len(s) \/ IsSpace(s[j + 1])

\* set(s.split())
Tokens(s) ==
    {SubSeq(s, ij[1], ij[2]) :
        ij \in {x \in (1..Len(s)) \X (1..Len(s)) : IsTokenAt(s, x[1], x[2])}}

\* mutant of is_match: without the similarity score, shared words only
is_match_tokens_only(inventory_name, ingredient_name, token_threshold) ==
    /\ norm_text(inventory_name) # <<>>
    /\ norm_text(ingredient_name) # <<>>
    /\ Tokens(norm_text(inventory_name)) \cap Tokens(norm_text(ingredient_name)) # {}

\* is_match(inventory_name, ingredient_name, token_threshold)
is_match(inventory_name, ingredient_name, token_threshold) ==
    IF norm_text(inventory_name) = <<>> \/ norm_text(ingredient_name) = <<>> THEN FALSE
    ELSE IF Tokens(norm_text(inventory_name)) \cap Tokens(norm_text(ingredient_name)) # {}
         THEN TRUE
    ELSE RLeq(token_threshold,
              similarity(norm_text(inventory_name), norm_text(ingredient_name)))

-----------------------------------------------------------------------------
(* Bounds and inputs of the model                                          *)

\* the longest main_ingredients list of a recipe
MaxIngredients == 2

\* the number of mark-cooked calls in one behaviour
MaxCalls == 2

Users == {1, 2}

\* the requests: the sequential specification runs request 1 only
AllProcs == {1, 2}

\* the item names, unit spellings, numbers and words the requests and calls use
Text ==
    [s_chicken_breast |-> <<"C", "h", "i", "c", "k", "e", "n", " ", "B", "r", "e", "a", "s", "t">>,
     s_rice |-> <<"R", "i", "c", "e">>,
     s_butter |-> <<"B", "u", "t", "t", "e", "r">>,
     s_sticks |-> <<"s", "t", "i", "c", "k", "s">>,
     t_2 |-> <<"2">>,
     t_half |-> <<"1", "/", "2">>,
     t_2_5 |-> <<"2", ".", "5">>,
     t_1_0 |-> <<"1", "/", "0">>,
     t_lbs |-> <<"l", "b", "s">>,
     t_Cups |-> <<"C", "u", "p", "s">>,
     t_Chicken |-> <<"C", "h", "i", "c", "k", "e", "n">>,
     t_Breasts |-> <<"B", "r", "e", "a", "s", "t", "s">>,
     t_white_rice |-> <<"w", "h", "i", "t", "e", " ", "r", "i", "c", "e">>,
     s_chicken_thighs |-> <<"C", "h", "i", "c", "k", "e", "n", " ", "T", "h", "i", "g", "h", "s">>,
     s_chicken |-> <<"c", "h", "i", "c", "k", "e", "n">>,
     s_rice_lower |-> <<"r", "i", "c", "e">>,
     s_qq |-> <<"q", "q">>,
     t_LBS |-> <<"L", "B", "S">>,
     t_Tbsp_padded |-> <<" ", "T", "b", "s", "p", " ">>,
     t_blank |-> <<" ">>,
     t_blanks |-> <<" ", " ">>,
     s_organic_bananas |-> <<"O", "r", "g", "a", "n", "i", "c", " ", "B", "a", "n", "a", "n", "a", "s">>,
     s_banana |-> <<"b", "a", "n", "a", "n", "a">>,
     s_tomato |-> <<"t", "o", "m", "a", "t", "o">>,
     s_cherry_tomato |-> <<"c", "h", "e", "r", "r", "y", " ", "t", "o", "m", "a", "t", "o">>,
     s_eggplant_parmesan |-> <<"E", "g", "g", "p", "l", "a", "n", "t", " ", "P", "a", "r", "m", "e", "s", "a", "n">>,
     s_egg |-> <<"e", "g", "g">>,
     s_beef |-> <<"b", "e", "e", "f">>,
     s_ampersand |-> <<"&">>,
     s_salt_and_pepper |-> <<"S", "a", "l", "t", " ", "&", " ", "P", "e", "p", "p", "e", "r">>,
     s_salt_pepper |-> <<"s", "a", "l", "t", " ", "p", "e", "p", "p", "e", "r">>]

\* entries of main_ingredients: a string, a dict (text: its "name", None when
\* it has none), or a value that is neither (a number, a list, null)
StrEntry(text) == [kind |-> "str", text |-> text]
DictEntry(name) == [kind |-> "dict", text |-> name]
OtherEntry == [kind |-> "other", text |-> None]

\* the entries of main_ingredients the requests use: "2 lbs Chicken Breast",
\* "1 cup rice", "2 sticks butter", {"name": "8 oz chicken"}, {"quantity": 1}
Entry ==
    [chicken |-> StrEntry(<<"2", " ", "l", "b", "s", " ">> \o Text.s_chicken_breast),
     rice |-> StrEntry(<<"1", " ", "c", "u", "p", " ", "r", "i", "c", "e">>),
     butter |-> StrEntry(<<"2", " ">> \o Text.s_sticks \o <<" ", "b", "u", "t", "t", "e", "r">>),
     named |-> DictEntry(<<"8", " ", "o", "z", " ", "c", "h", "i", "c", "k", "e", "n">>),
     noname |-> DictEntry(None)]

Entries == {Entry.chicken, Entry.rice, Entry.butter, Entry.named, Entry.noname, OtherEntry}

Item(id, user_id, item_name, quantity, unit) ==
    [id |-> id, user_id |-> user_id, item_name |-> item_name,
     quantity |-> quantity, unit |-> unit]

\* the inventory_items tables the model starts from, rows in id order (the
\* order in which the unordered query of line 394 is taken to return them);
\* rows may hold any quantity and unit the inventory endpoints were given
InventoryChoices == {
    << Item(1, 1, Text.s_chicken_breast, RInt(2), Unit.lb),
       Item(2, 2, Text.s_butter, RInt(9), Text.s_sticks),
       Item(3, 1, Text.s_rice, RInt(1), Unit.kg),
       Item(4, 1, Text.s_butter, RInt(4), <<"S", "t", "i", "c", "k", "s">>) >>,
    << Item(1, 1, Text.s_chicken_breast, RInt(48), Unit.oz),
       Item(2, 2, Text.s_butter, RInt(-1), <<>>),
       Item(3, 1, Text.s_rice, RInt(3), Unit.kg) >> }

\* recipe_json, reduced to what mark_recipe_cooked reads: whether the recipe
\* node has "main_ingredients", and that list
Recipe(has_main, main_ingredients) ==
    [has_main |-> has_main, main_ingredients |-> main_ingredients]

HistoryRow(user_id, recipe_json, servings) ==
    [user_id |-> user_id, recipe_json |-> recipe_json, servings |-> servings,
     feedback_score |-> 0, is_cooked |-> FALSE]

\* the recipe of the second user
OtherUsersRow == HistoryRow(2, Recipe(TRUE, <<Entry.butter>>), 1)

-----------------------------------------------------------------------------
(* POST /recipes/{recipe_id}/cooked (recipes.py, lines 380-426)            *)

NoOutcome ==
    [kind |-> "none", item |-> 0, amount |-> RInt(0), old |-> RInt(0), new |-> RInt(0),
     parsed |-> Triple(RInt(0), <<>>, <<>>)]

Outcome(kind, item, amount, old, new, parsed) ==
    [kind |-> kind, item |-> item, amount |-> amount, old |-> old, new |-> new,
     parsed |-> parsed]

IdleSession ==
    [pc |-> "idle", user |-> 0, rid |-> 0, servings |-> 0, ingredients |-> <<>>,
     items |-> <<>>, loaded |-> <<>>, i |-> 0, out |-> NoOutcome]

\* history.servings if history.servings else 1
EffectiveServings(servings) == IF servings # 0 THEN servings ELSE 1

\* ing if isinstance(ing, str) else ing.get("name", "") (line 398), for an
\* entry that is a string or a dict
IngredientText(ing) ==
    IF ing.kind = "str" THEN ing.text
    ELSE IF ing.text = None THEN <<>> ELSE ing.text

\* mutant of ConvertedQty: the conversion runs from the item's unit to the
\* requirement's unit
ConvertedQtyReversed(parsed, item) ==
    convert_unit(parsed.quantity, normalize_unit(item.unit), parsed.unit)

\* lines 410-411: the requirement's quantity in the matched item's unit
ConvertedQty(parsed, item) ==
    convert_unit(parsed.quantity, parsed.unit, normalize_unit(item.unit))

\* lines 413-414 and 420: the amount to deduct from the matched item
DeductionAmount(converted_qty, servings) ==
    IF converted_qty # None
    THEN RMul(converted_qty, RInt(EffectiveServings(servings)))
    ELSE RInt(EffectiveServings(servings))

\* mutant of NewQuantity: the floor at 0 is missing
NewQuantityNoFloor(quantity, deduction_amount) == RSub(quantity, deduction_amount)

\* mutant of NewQuantity: abs() in place of max(0, .)
NewQuantityAbs(quantity, deduction_amount) ==
    Rat(Abs(RSub(quantity, deduction_amount)[1]), RSub(quantity, deduction_amount)[2])

\* lines 416 and 422: max(0, match_item.quantity - deduction_amount)
NewQuantity(quantity, deduction_amount) == Max0(RSub(quantity, deduction_amount))

ItemNames(items) == [k \in 1..Len(items) |-> items[k].item_name]

\* mutant of WriteBack: the amount is deducted from every item of the list
WriteBackAll(items, parsed, m, converted_qty, deduction_amount) ==
    [items |-> [k \in 1..Len(items) |->
                   [items[k] EXCEPT !.quantity = NewQuantity(@, deduction_amount)]],
     out |-> Outcome(IF converted_qty # None THEN "converted" ELSE "fallback",
                     m, deduction_amount, items[m].quantity,
                     NewQuantity(items[m].quantity, deduction_amount), parsed)]

\* lines 413-423 for the matched item at position m: the quantity is written
\* back and the deduction printed
WriteBack(items, parsed, m, converted_qty, deduction_amount) ==
    [items |-> [items EXCEPT ![m].quantity = NewQuantity(@, deduction_amount)],
     out |-> Outcome(IF converted_qty # None THEN "converted" ELSE "fallback",
                     m, deduction_amount, items[m].quantity,
                     NewQuantity(items[m].quantity, deduction_amount), parsed)]

\* lines 410-423 for the matched item at position m
DeductFrom(items, parsed, m, converted_qty, servings) ==
    WriteBack(items, parsed, m, converted_qty, DeductionAmount(converted_qty, servings))

\* lines 406-423, m the position find_best_inventory_match returned (0: None)
DeductMatched(items, parsed, m, servings) ==
    IF m = 0
    THEN [items |-> items, out |-> [NoOutcome EXCEPT !.kind = "nomatch", !.parsed = parsed]]
    ELSE DeductFrom(items, parsed, m, ConvertedQty(parsed, items[m]), servings)

\* lines 405-423 for the parsed requirement
DeductParsed(items, parsed, servings) ==
    DeductMatched(items, parsed,
        find_best_inventory_match(ItemNames(items), parsed.name, DEFAULT_MIN_SCORE)[1],
        servings)

\* lines 399-423 for the entry's text
DeductText(items, ingredient_text, servings) ==
    IF ~Truthy(ingredient_text)
    THEN [items |-> items, out |-> [NoOutcome EXCEPT !.kind = "empty"]]
    ELSE DeductParsed(items, parse_ingredient(ingredient_text), servings)

\* one pass of the loop body (lines 398-423) for an entry that is a string or
\* a dict: the session's items after it and what it printed
DeductStep(items, ing, servings) == DeductText(items, IngredientText(ing), servings)

\* mutant of UserInventory: the rows of every user are fetched
UserInventoryOfAll(user) == inventory

\* db.query(InventoryItem).filter(InventoryItem.user_id == current_user.id).all()
UserInventory(user) == SelectSeq(inventory, LAMBDA row : row.user_id = user)

\* lines 382-395: the history row is looked up (404 when the caller has no
\* such recipe), is_cooked is set in the session and the caller's inventory
\* is fetched when the recipe has main_ingredients
MarkCookedBegin(p, user, rid) ==
    /\ sess[p].pc \in {"idle", "done"}
    /\ ncalls < MaxCalls
    /\ ncalls' = ncalls + 1
    /\ IF rid \in DOMAIN history /\ history[rid].user_id = user
       THEN LET h == history[rid]
                loop == h.recipe_json.has_main
            IN  /\ sess' = [sess EXCEPT ![p] =
                       [pc |-> IF loop /\ h.recipe_json.main_ingredients # <<>>
                               THEN "loop" ELSE "commit",
                        user |-> user, rid |-> rid, servings |-> h.servings,
                        ingredients |-> h.recipe_json.main_ingredients,
                        items |-> IF loop THEN UserInventory(user) ELSE <<>>,
                        loaded |-> IF loop THEN UserInventory(user) ELSE <<>>,
                        i |-> 1, out |-> NoOutcome]]
                /\ resp' = [resp EXCEPT ![p] = 0]
       ELSE /\ sess' = [sess EXCEPT ![p] = [IdleSession EXCEPT !.pc = "done"]]
            /\ resp' = [resp EXCEPT ![p] = 404]
    /\ UNCHANGED <<inventory, history, arg, ret, called, profiles, preferences,
                 notifications, alerts>>

\* the session after one pass r of the loop: the for statement moves on to
\* the next entry or leaves the loop
Advance(s, r) ==
    [s EXCEPT !.items = r.items, !.out = r.out, !.i = @ + 1,
              !.pc = IF s.i = Len(s.ingredients) THEN "commit" ELSE "loop"]

\* mutant of MarkCookedStep: every pass of the loop writes the session's
\* quantities and is_cooked to the tables
MarkCookedStepWriting(p) ==
    /\ sess[p].pc = "loop"
    /\ IF sess[p].ingredients[sess[p].i].kind = "other"
       THEN /\ sess' = [sess EXCEPT ![p].pc = "done"]
            /\ resp' = [resp EXCEPT ![p] = 500]
            /\ UNCHANGED <<inventory, history>>
       ELSE /\ sess' = [sess EXCEPT ![p] = Advance(@,
                            DeductStep(@.items, @.ingredients[@.i], @.servings))]
            /\ inventory' = [k \in 1..Len(inventory) |->
                   IF \E j \in 1..Len(sess'[p].items) : sess'[p].items[j].id = inventory[k].id
                   THEN sess'[p].items[CHOOSE j \in 1..Len(sess'[p].items) :
                                          sess'[p].items[j].id = inventory[k].id]
                   ELSE inventory[k]]
            /\ history' = [history EXCEPT ![sess[p].rid].is_cooked = TRUE]
            /\ UNCHANGED resp
    /\ UNCHANGED <<ncalls, arg, ret, called, profiles, preferences,
                 notifications, alerts>>

\* lines 397-423: the loop body for the next entry of main_ingredients.  An
\* entry that is neither a string nor a dict has no .get: the AttributeError
\* ends the request with status 500 and get_db closes the session uncommitted.
MarkCookedStep(p) ==
    /\ sess[p].pc = "loop"
    /\ IF sess[p].ingredients[sess[p].i].kind = "other"
       THEN /\ sess' = [sess EXCEPT ![p].pc = "done"]
            /\ resp' = [resp EXCEPT ![p] = 500]
       ELSE /\ sess' = [sess EXCEPT ![p] = Advance(@,
                            DeductStep(@.items, @.ingredients[@.i], @.servings))]
            /\ UNCHANGED resp
    /\ UNCHANGED <<inventory, history, ncalls, arg, ret, called, profiles, preferences,
                 notifications, alerts>>

\* the UPDATE statements of the flush: the quantity of every row the session
\* changed, by primary key
Flush(table, items, loaded) ==
    [k \in 1..Len(table) |->
        IF \E j \in 1..Len(items) :
               items[j].id = table[k].id /\ items[j].quantity # loaded[j].quantity
        THEN LET j == CHOOSE j \in 1..Len(items) : items[j].id = table[k].id
             IN  [table[k] EXCEPT !.quantity = items[j].quantity]
        ELSE table[k]]

\* lines 425-426: db.commit() writes is_cooked and the changed quantities
MarkCookedCommit(p) ==
    /\ sess[p].pc = "commit"
    /\ inventory' = Flush(inventory, sess[p].items, sess[p].loaded)
    /\ history' = [history EXCEPT ![sess[p].rid].is_cooked = TRUE]
    /\ sess' = [sess EXCEPT ![p].pc = "done"]
    /\ resp' = [resp EXCEPT ![p] = 200]
    /\ UNCHANGED <<ncalls, arg, ret, called, profiles, preferences,
                 notifications, alerts>>

NoDirectCall == arg = None /\ ret = None /\ called = FALSE

\* no user has a profile row and recipe_preferences is empty
\* no retraining notification was recorded and no alert sent
NoNotifications == notifications = <<>> /\ alerts = <<>>

NoGenerations ==
    profiles = [u \in Users |-> <<>>] /\ preferences = <<>> /\ NoNotifications

Init ==
    /\ inventory \in InventoryChoices
    \* the stored recipe has no 'main_ingredients' or a list of entries of any
    \* kind; RecipeHistory.servings is an unvalidated integer
    /\ \E r \in {Recipe(FALSE, <<>>)} \cup
                 {Recipe(TRUE, l) : l \in UNION {[1..n -> Entries] : n \in 0..MaxIngredients}},
          s \in {-1, 0, 1, 2} :
           history = <<HistoryRow(1, r, s), OtherUsersRow>>
    /\ sess = [p \in AllProcs |-> IdleSession]
    /\ resp = [p \in AllProcs |-> 0]
    /\ ncalls = 0
    /\ NoDirectCall
    /\ NoGenerations

Next ==
    \* recipe ids 1 and 2 are the two rows of recipe_history, 3 is no row
    \/ \E user \in Users, rid \in 1..3 : MarkCookedBegin(1, user, rid)
    \/ MarkCookedStep(1)
    \/ MarkCookedCommit(1)

Spec == Init /\ [][Next]_vars

-----------------------------------------------------------------------------
(* Concurrent requests: FastAPI runs the synchronous handler in a thread   *)
(* pool, each request with its own session from get_db (database.py, lines *)
(* 24-29); no row is locked and the flush writes absolute quantities.      *)

InitConc ==
    /\ inventory \in InventoryChoices
    /\ \E r \in {Recipe(TRUE, <<Entry.named>>), Recipe(TRUE, <<Entry.chicken, Entry.rice>>),
                 Recipe(TRUE, <<Entry.noname, OtherEntry>>), Recipe(FALSE, <<>>)},
          s \in {1, 2} :
           history = <<HistoryRow(1, r, s), OtherUsersRow>>
    /\ sess = [p \in AllProcs |-> IdleSession]
    /\ resp = [p \in AllProcs |-> 0]
    /\ ncalls = 0
    /\ NoDirectCall
    /\ NoGenerations

NextConc ==
    \E p \in AllProcs :
        \/ \E user \in Users, rid \in 1..2 : MarkCookedBegin(p, user, rid)
        \/ MarkCookedStep(p)
        \/ MarkCookedCommit(p)

SpecConc == InitConc /\ [][NextConc]_vars

-----------------------------------------------------------------------------
(* Direct calls of the smart_inventory functions, as the unit tests make   *)
(* them (tests/backend/test_smart_inventory.py)                            *)

NoRequests ==
    /\ inventory = <<>>
    /\ history = <<>>
    /\ sess = [p \in AllProcs |-> IdleSession]
    /\ resp = [p \in AllProcs |-> 0]
    /\ ncalls = 0
    /\ NoGenerations

\* the longest inventory list given to find_best_inventory_match
MaxItems == 2

ParseNumbers == {Text.t_2, Text.t_half, Text.t_2_5, Text.t_1_0}

\* unit tokens: two one-word spellings of the unit table, its spelling of two
\* words, and two words it does not hold
ParseTokens == {Text.t_lbs, Text.t_Cups, Unit.floz, Text.t_Chicken, Text.s_sticks}

ParseRests == {Text.t_Breasts, Text.t_white_rice}

\* "<number> <token> <rest>" and "<rest> (<number> <token>, diced)"
InitParse == NoRequests /\ arg \in
        {[fn |-> "parse_ingredient", form |-> "prefix", number |-> n, token |-> t, rest |-> r,
          text |-> n \o <<" ">> \o t \o <<" ">> \o r] :
            n \in ParseNumbers, t \in ParseTokens, r \in ParseRests}
        \cup
        {[fn |-> "parse_ingredient", form |-> "paren", number |-> n, token |-> t, rest |-> r,
          text |-> r \o <<" ", "(">> \o n \o <<" ">> \o t \o <<",", " ", "d", "i", "c", "e", "d", ")">>] :
            n \in ParseNumbers, t \in ParseTokens, r \in ParseRests}
    /\ ret = None /\ called = FALSE

CallParseIngredient ==
    /\ ~called
    /\ arg.fn = "parse_ingredient"
    /\ ret' = parse_ingredient(arg.text)
    /\ called' = TRUE
    /\ UNCHANGED <<inventory, history, sess, resp, ncalls, arg, profiles, preferences,
                 notifications, alerts>>

SpecParse == InitParse /\ [][CallParseIngredient]_vars

InitMatch == NoRequests /\ arg \in
        {[fn |-> "find_best_inventory_match", items |-> l, name |-> n, min_score |-> m] :
            l \in UNION {[1..k -> {Text.s_chicken_breast, Text.s_chicken_thighs, Text.s_rice,
                                   <<"&">>}] : k \in 0..MaxItems},
            n \in {Text.s_chicken, Text.s_rice_lower, Text.s_qq},
            m \in {RInt(0), DEFAULT_MIN_SCORE, RInt(1)}}
    /\ ret = None /\ called = FALSE

CallFindBestMatch ==
    /\ ~called
    /\ arg.fn = "find_best_inventory_match"
    /\ ret' = find_best_inventory_match(arg.items, arg.name, arg.min_score)
    /\ called' = TRUE
    /\ UNCHANGED <<inventory, history, sess, resp, ncalls, arg, profiles, preferences,
                 notifications, alerts>>

SpecMatch == InitMatch /\ [][CallFindBestMatch]_vars

-----------------------------------------------------------------------------
(* Direct calls of normalize_unit and convert_unit                         *)

\* unit texts: canonical keys of the three families, spellings in other case
\* and with blanks around, a word the table does not hold, the empty string,
\* the missing value and strings of blanks
UnitTexts ==
    {Unit.lb, Text.t_LBS, Unit.oz, Unit.kg, Unit.cup, Text.t_Tbsp_padded, Unit.floz, Unit.pcs, Unit.clove, Unit.can,
     Text.s_sticks, <<>>, None, Text.t_blank, Text.t_blanks}

\* again: whether unit is the result of an earlier normalize_unit call
InitUnits ==
    /\ NoRequests
    /\ arg \in
        {[fn |-> "convert_unit", qty |-> q, from |-> f, to |-> t] :
            q \in {RInt(1), Rat(5, 2)}, f \in UnitTexts, t \in UnitTexts}
        \cup
        {[fn |-> "normalize_unit", unit |-> u, again |-> FALSE] : u \in UnitTexts}
    /\ ret = None
    /\ called = FALSE

CallConvertUnit ==
    /\ ~called
    /\ arg.fn = "convert_unit"
    /\ ret' = convert_unit(arg.qty, arg.from, arg.to)
    /\ called' = TRUE
    /\ UNCHANGED <<inventory, history, sess, resp, ncalls, arg, profiles, preferences,
                 notifications, alerts>>

CallNormalizeUnit ==
    /\ ~called
    /\ arg.fn = "normalize_unit"
    /\ ret' = normalize_unit(arg.unit)
    /\ called' = TRUE
    /\ UNCHANGED <<inventory, history, sess, resp, ncalls, arg, profiles, preferences,
                 notifications, alerts>>

\* normalize_unit called on the result of the first call
CallNormalizeUnitAgain ==
    /\ called
    /\ arg.fn = "normalize_unit"
    /\ ~arg.again
    /\ arg' = [arg EXCEPT !.unit = ret, !.again = TRUE]
    /\ ret' = normalize_unit(ret)
    /\ UNCHANGED <<inventory, history, sess, resp, ncalls, called, profiles, preferences,
                 notifications, alerts>>

NextUnits == CallConvertUnit \/ CallNormalizeUnit \/ CallNormalizeUnitAgain

SpecUnits == InitUnits /\ [][NextUnits]_vars

-----------------------------------------------------------------------------
(* Direct calls of parse_ingredient on every short text                    *)

\* the longest text given to parse_ingredient
MaxTextLen == 4

\* every text of two digits, the other two quantity characters, the blank, the
\* opening parenthesis and two letters
InitParseText == NoRequests /\ arg \in
        {[fn |-> "parse_ingredient", form |-> "text", number |-> <<>>, token |-> <<>>,
          rest |-> <<>>, text |-> t] :
            t \in UNION {[1..n -> {"2", "0", "/", ".", " ", "(", "a", "g"}] : n \in 0..MaxTextLen}}
    /\ ret = None /\ called = FALSE

SpecParseText == InitParseText /\ [][CallParseIngredient]_vars

-----------------------------------------------------------------------------
(* Direct calls of is_match                                                *)

IsMatchNames ==
    {Text.s_organic_bananas, Text.s_banana, Text.s_tomato, Text.s_cherry_tomato, Text.s_eggplant_parmesan,
     Text.s_egg, Text.s_beef, Text.s_chicken, Text.s_ampersand}

\* arguments of norm_text: the names given to is_match and two spellings of
\* one name, with and without a punctuation mark between the words
InitIsMatch ==
    NoRequests /\ arg \in
        {[fn |-> "is_match", inventory_name |-> a, ingredient_name |-> b,
          token_threshold |-> DEFAULT_MIN_SCORE] : a \in IsMatchNames, b \in IsMatchNames}
        \cup
        {[fn |-> "norm_text", s |-> a] :
            a \in IsMatchNames \cup {Text.s_salt_and_pepper, Text.s_salt_pepper}}
    /\ ret = None /\ called = FALSE

CallIsMatch ==
    /\ ~called
    /\ arg.fn = "is_match"
    /\ ret' = is_match(arg.inventory_name, arg.ingredient_name, arg.token_threshold)
    /\ called' = TRUE
    /\ UNCHANGED <<inventory, history, sess, resp, ncalls, arg, profiles, preferences,
                 notifications, alerts>>

CallNormText ==
    /\ ~called
    /\ arg.fn = "norm_text"
    /\ ret' = norm_text(arg.s)
    /\ called' = TRUE
    /\ UNCHANGED <<inventory, history, sess, resp, ncalls, arg, profiles, preferences,
                 notifications, alerts>>

NextIsMatch == CallIsMatch \/ CallNormText

SpecIsMatch == InitIsMatch /\ [][NextIsMatch]_vars

-----------------------------------------------------------------------------
(* POST /recipes/generate (recipes.py, lines 161-260)                      *)

\* the number of generate calls of a behaviour
MaxGenerations == 3

\* a row of user_profiles; recipe_generation_count is <<>> for NULL, else <<n>>
ProfileRow(count) == [recipe_generation_count |-> count]

\* what the model service returns for the two variants of a comparison
r_variant_a == Recipe(TRUE, <<Entry.chicken>>)
r_variant_b == Recipe(TRUE, <<Entry.named>>)

\* lines 177-181: the profile row is created with count 0 when there is none
WithProfile(table, user) ==
    IF table[user] = <<>> THEN [table EXCEPT ![user] = <<ProfileRow(<<0>>)>>] ELSE table

\* line 191: next_generation_count, (profile.recipe_generation_count or 0) + 1
NextGenerationCount(table, user) ==
    IF WithProfile(table, user)[user][1].recipe_generation_count = <<>> THEN 1
    ELSE WithProfile(table, user)[user][1].recipe_generation_count[1] + 1

\* mutant of IsComparison: the count before the increment decides
IsComparisonOldCount(compare, next_generation_count) ==
    compare \/ (next_generation_count - 1) % 7 = 0

\* line 192: is_comparison
IsComparison(compare, next_generation_count) ==
    compare \/ next_generation_count % 7 = 0

\* lines 206-217: the RecipePreference row of a comparison; the columns the
\* constructor is not given are NULL (chosen_recipe_history_id is <<>> for
\* NULL, else <<id>>; skipped is "NULL", "FALSE" or "TRUE")
PreferenceRow(user, servings, generation_number, variant_a, variant_b) ==
    [user_id |-> user, servings |-> servings, generation_number |-> generation_number,
     variant_a |-> variant_a, variant_b |-> variant_b, chosen_variant |-> None,
     rejected_variant |-> None, chosen_recipe_history_id |-> <<>>, skipped |-> "NULL"]

\* lines 219 and 246: the count is written to the profile row
SetCount(table, user, count) ==
    [WithProfile(table, user) EXCEPT ![user] = <<ProfileRow(<<count>>)>>]

GenerateResponse(status, mode, generation_count) ==
    [status |-> status, mode |-> mode, generation_count |-> generation_count]

\* the handler when the model service raises: the request ends with status
\* 500, only the creation of a missing profile row (committed at line 180)
\* stays
GenerateRaises(user) ==
    /\ profiles' = WithProfile(profiles, user)
    /\ ret' = GenerateResponse(500, "none", 0)
    /\ UNCHANGED <<history, preferences>>

\* lines 194-233: comparison mode
GenerateComparison(user, servings) ==
    /\ preferences' = Append(preferences,
           PreferenceRow(user, servings, NextGenerationCount(profiles, user),
                         r_variant_a, r_variant_b))
    /\ profiles' = SetCount(profiles, user, NextGenerationCount(profiles, user))
    /\ ret' = GenerateResponse(200, "comparison", NextGenerationCount(profiles, user))
    /\ UNCHANGED history

\* lines 235-258: single mode
GenerateSingle(user, servings) ==
    /\ history' = Append(history, HistoryRow(user, Recipe(TRUE, <<Entry.rice>>), servings))
    /\ profiles' = SetCount(profiles, user, NextGenerationCount(profiles, user))
    /\ ret' = GenerateResponse(200, "single", NextGenerationCount(profiles, user))
    /\ UNCHANGED preferences

\* generate_recipe_endpoint: an async handler without an await, so one call
\* runs from its first line to its last before another starts
Generate(user, compare, servings, raises) ==
    /\ ncalls < MaxGenerations
    /\ ncalls' = ncalls + 1
    /\ arg' = [fn |-> "generate", user |-> user, compare |-> compare, servings |-> servings]
    /\ called' = TRUE
    /\ IF raises THEN GenerateRaises(user)
       ELSE IF IsComparison(compare, NextGenerationCount(profiles, user))
            THEN GenerateComparison(user, servings)
       ELSE GenerateSingle(user, servings)
    /\ UNCHANGED <<inventory, sess, resp, notifications, alerts>>

InitGenerate ==
    /\ inventory = <<>>
    /\ history = <<>>
    /\ sess = [p \in AllProcs |-> IdleSession]
    /\ resp = [p \in AllProcs |-> 0]
    /\ ncalls = 0
    /\ NoDirectCall
    \* user_profiles holds for a user no row, a NULL count, or a count
    /\ profiles \in [Users -> {<<>>, <<ProfileRow(<<>>)>>, <<ProfileRow(<<0>>)>>,
                              <<ProfileRow(<<5>>)>>, <<ProfileRow(<<6>>)>>}]
    /\ preferences = <<>>
    /\ NoNotifications

NextGenerate ==
    \E user \in Users, compare \in BOOLEAN, raises \in BOOLEAN :
        Generate(user, compare, 2, raises)

SpecGenerate == InitGenerate /\ [][NextGenerate]_vars

-----------------------------------------------------------------------------
(* Retraining notifications (services/notification_service.py, lines       *)
(* 114-167; routers/training.py, lines 67-129)                             *)

PREFERENCE_THRESHOLD == 50
SATISFACTION_THRESHOLD == Rat(7, 10)
FEEDBACK_THRESHOLD == 50

\* the number of calls of a behaviour of the notification service
MaxNotifyCalls == 4

\* mutant of HasPending: the notifications of the user are not looked up
HasPendingIgnored(user_id) == FALSE

\* lines 138-143: the user has a notification with training_started == False
HasPending(user_id) ==
    \E k \in 1..Len(notifications) :
        notifications[k].user_id = user_id /\ ~notifications[k].training_started

\* lines 129-144: none of the four early returns is taken
ShouldNotify(user_id, preference_count, satisfaction_ratio, feedback_count) ==
    /\ ~(feedback_count < FEEDBACK_THRESHOLD)
    /\ ~(preference_count < PREFERENCE_THRESHOLD)
    /\ ~RLeq(SATISFACTION_THRESHOLD, satisfaction_ratio)
    /\ ~HasPending(user_id)

\* check_and_notify_threshold; sent is what send_slack_alert returns (False
\* without a webhook, on a response other than 200 and on an exception).  The
\* notification is recorded after the alert, whatever sent is (lines 151-165).
check_and_notify_threshold(user_id, preference_count, satisfaction_ratio, feedback_count, sent) ==
    IF ShouldNotify(user_id, preference_count, satisfaction_ratio, feedback_count)
    THEN /\ alerts' = Append(alerts, [user_id |-> user_id, sent |-> sent])
         /\ notifications' = Append(notifications,
                [user_id |-> user_id, preference_count |-> preference_count,
                 approved |-> FALSE, training_started |-> FALSE])
    ELSE UNCHANGED <<notifications, alerts>>

\* a direct call of check_and_notify_threshold, as the tests make it; the
\* result is <<"True">> or <<"False">> for sent, or None
CallCheckAndNotify(user_id, preference_count, satisfaction_ratio, feedback_count, sent) ==
    /\ ncalls < MaxNotifyCalls
    /\ ncalls' = ncalls + 1
    /\ arg' = [fn |-> "check_and_notify_threshold", user_id |-> user_id,
               preference_count |-> preference_count,
               satisfaction_ratio |-> satisfaction_ratio,
               feedback_count |-> feedback_count, sent |-> sent]
    /\ ret' = IF ShouldNotify(user_id, preference_count, satisfaction_ratio, feedback_count)
              THEN (IF sent THEN <<"True">> ELSE <<"False">>) ELSE None
    /\ called' = TRUE
    /\ check_and_notify_threshold(user_id, preference_count, satisfaction_ratio,
                                  feedback_count, sent)
    /\ UNCHANGED <<inventory, history, sess, resp, profiles, preferences>>

\* POST /training/approve/{user_id} for an existing user: 400 below 50
\* preferences with skipped == False (lines 85-94), else the latest
\* notification with training_started == False, if any, is marked approved
\* and started (lines 113-121)
approve_retraining(user_id) ==
    /\ ncalls < MaxNotifyCalls
    /\ ncalls' = ncalls + 1
    /\ arg' = [fn |-> "approve_retraining", user_id |-> user_id]
    /\ called' = TRUE
    /\ IF Cardinality({k \in 1..Len(preferences) :
                          preferences[k].user_id = user_id
                          /\ preferences[k].skipped = "FALSE"}) < 50
       THEN ret' = <<400>> /\ UNCHANGED notifications
       ELSE /\ ret' = <<200>>
            /\ notifications' =
                   [k \in 1..Len(notifications) |->
                       IF /\ notifications[k].user_id = user_id
                          /\ ~notifications[k].training_started
                          /\ \A j \in (k + 1)..Len(notifications) :
                                 ~(notifications[j].user_id = user_id
                                   /\ ~notifications[j].training_started)
                       THEN [notifications[k] EXCEPT !.approved = TRUE,
                                                     !.training_started = TRUE]
                       ELSE notifications[k]]
    /\ UNCHANGED <<inventory, history, sess, resp, profiles, preferences, alerts>>

\* the tables as tests/backend/test_training.py sets them up: user 1 has 50
\* preferences stored with skipped=False, user 2 has none; no notification
InitNotify ==
    /\ inventory = <<>>
    /\ history = <<>>
    /\ sess = [p \in AllProcs |-> IdleSession]
    /\ resp = [p \in AllProcs |-> 0]
    /\ ncalls = 0
    /\ NoDirectCall
    /\ profiles = [u \in Users |-> <<>>]
    /\ preferences = [k \in 1..50 |->
           [PreferenceRow(1, 2, 0, r_variant_a, r_variant_b) EXCEPT !.skipped = "FALSE"]]
    /\ NoNotifications

NextNotify ==
    \/ \E user_id \in Users, preference_count \in {49, 50},
          satisfaction_ratio \in {Rat(3, 5), SATISFACTION_THRESHOLD},
          feedback_count \in {49, 50}, sent \in BOOLEAN :
           CallCheckAndNotify(user_id, preference_count, satisfaction_ratio,
                              feedback_count, sent)
    \/ \E user_id \in Users : approve_retraining(user_id)

SpecNotify == InitNotify /\ [][NextNotify]_vars

-----------------------------------------------------------------------------
(* POST /recipes/preference/{id}/choose and /skip (recipes.py, lines       *)
(* 263-363)                                                                *)

\* str.upper()
Upper(s) ==
    [i \in 1..Len(s) |->
        IF s[i] \in LowerLetters
        THEN CHOOSE c \in UpperLetters : LowerOfUpper[c] = s[i]
        ELSE s[i]]

\* lines 274-279: the caller's preference with this id, if any
OwnPreference(user, preference_id) ==
    preference_id \in 1..Len(preferences) /\ preferences[preference_id].user_id = user

\* mutant of ChosenJson: the other variant is taken
ChosenJsonSwapped(pref, choice) ==
    IF choice = <<"A">> THEN pref.variant_b ELSE pref.variant_a

\* line 281: chosen_json
ChosenJson(pref, choice) ==
    IF choice = <<"A">> THEN pref.variant_a ELSE pref.variant_b

\* lines 291-302: the preference row after the two commits
ChosenRow(pref, choice, history_id) ==
    [pref EXCEPT !.chosen_variant = choice,
                 !.rejected_variant = IF choice = <<"A">> THEN <<"B">> ELSE <<"A">>,
                 !.chosen_recipe_history_id = <<history_id>>]

\* lines 305-309: total_preferences; a row whose skipped is NULL does not
\* satisfy skipped == False
TotalPreferences(table, user) ==
    Cardinality({k \in 1..Len(table) :
        /\ table[k].user_id = user
        /\ table[k].skipped = "FALSE"
        /\ table[k].chosen_variant # None})

\* lines 311-319: the user's history rows with a feedback_score in scores
FeedbackCount(table, user, scores) ==
    Cardinality({k \in 1..Len(table) :
        table[k].user_id = user /\ table[k].feedback_score \in scores})

\* line 321: satisfaction_ratio
SatisfactionRatio(table, user) ==
    IF FeedbackCount(table, user, {1, 2}) > 0
    THEN Rat(FeedbackCount(table, user, {2}), FeedbackCount(table, user, {1, 2}))
    ELSE RInt(1)

\* lines 281-335 for the caller's preference: the history row is added, the
\* preference updated, and the threshold checked on the tables as committed
ChooseOwn(user, preference_id, choice, servings, sent) ==
    /\ history' = Append(history,
           HistoryRow(user, ChosenJson(preferences[preference_id], choice), servings))
    /\ preferences' = [preferences EXCEPT ![preference_id] =
           ChosenRow(@, choice, Len(history) + 1)]
    /\ check_and_notify_threshold(user, TotalPreferences(preferences', user),
           SatisfactionRatio(history', user),
           FeedbackCount(history', user, {1, 2}), sent)
    /\ ret' = [status |-> 200, history_id |-> Len(history) + 1]

\* choose_preference; feedback scores are 1 and 2 (FeedbackRequest), so
\* feedback_score > 0 is a score of 1 or 2.  arg records the request with its
\* number among the calls.
choose_preference(user, preference_id, chosen_variant, servings, sent) ==
    /\ ncalls < MaxGenerations
    /\ ncalls' = ncalls + 1
    /\ arg' = [fn |-> "choose", call |-> ncalls + 1, user |-> user,
               preference_id |-> preference_id, chosen_variant |-> chosen_variant,
               servings |-> servings]
    /\ called' = TRUE
    /\ IF Upper(chosen_variant) \notin {<<"A">>, <<"B">>}
       THEN /\ ret' = [status |-> 400, history_id |-> 0]
            /\ UNCHANGED <<history, preferences, notifications, alerts>>
       ELSE IF ~OwnPreference(user, preference_id)
       THEN /\ ret' = [status |-> 404, history_id |-> 0]
            /\ UNCHANGED <<history, preferences, notifications, alerts>>
       ELSE ChooseOwn(user, preference_id, Upper(chosen_variant), servings, sent)
    /\ UNCHANGED <<inventory, sess, resp, profiles>>

\* skip_preference
skip_preference(user, preference_id) ==
    /\ ncalls < MaxGenerations
    /\ ncalls' = ncalls + 1
    /\ arg' = [fn |-> "skip", call |-> ncalls + 1, user |-> user,
               preference_id |-> preference_id]
    /\ called' = TRUE
    /\ IF OwnPreference(user, preference_id)
       THEN /\ preferences' = [preferences EXCEPT ![preference_id].skipped = "TRUE"]
            /\ ret' = [status |-> 200, history_id |-> 0]
       ELSE /\ ret' = [status |-> 404, history_id |-> 0]
            /\ UNCHANGED preferences
    /\ UNCHANGED <<inventory, history, sess, resp, profiles, notifications, alerts>>

\* the calls of the two preference endpoints: preference ids 1 and 2, the
\* variants "A", "b" and "C", the request's default of 2 servings
NextPreferences ==
    \/ \E user \in Users, preference_id \in 1..2,
          chosen_variant \in {<<"A">>, <<"b">>, <<"C">>}, sent \in BOOLEAN :
           choose_preference(user, preference_id, chosen_variant, 2, sent)
    \/ \E user \in Users, preference_id \in 1..2 : skip_preference(user, preference_id)

\* the recipe endpoints together, on the inventories of the mark-cooked
\* specification: generate with a servings value of -1 or 2, the preference
\* endpoints, and mark-cooked for the recipes the calls have stored
InitRecipes ==
    /\ inventory \in InventoryChoices
    /\ history = <<>>
    /\ sess = [p \in AllProcs |-> IdleSession]
    /\ resp = [p \in AllProcs |-> 0]
    /\ ncalls = 0
    /\ NoDirectCall
    /\ NoGenerations

NextRecipes ==
    \/ \E compare \in BOOLEAN, servings \in {-1, 2} : Generate(1, compare, servings, FALSE)
    \/ NextPreferences
    \/ \E rid \in 1..2 : MarkCookedBegin(1, 1, rid)
    \/ MarkCookedStep(1)
    \/ MarkCookedCommit(1)

SpecRecipes == InitRecipes /\ [][NextRecipes]_vars

\* a user at the threshold: user 1 has 50 preferences as generate stores
\* them (skipped is NULL), chose variant A on those with ids 2 to 50 and
\* disliked the 49 recipes chosen and one other; preference 1 is open
InitThreshold ==
    /\ inventory = <<>>
    /\ history = [k \in 1..50 |->
           [HistoryRow(1, r_variant_a, 2) EXCEPT !.feedback_score = 1]]
    /\ sess = [p \in AllProcs |-> IdleSession]
    /\ resp = [p \in AllProcs |-> 0]
    /\ ncalls = 0
    /\ NoDirectCall
    /\ profiles = [u \in Users |-> IF u = 1 THEN <<ProfileRow(<<51>>)>> ELSE <<>>]
    /\ preferences = [k \in 1..50 |->
           IF k = 1 THEN PreferenceRow(1, 2, 51, r_variant_a, r_variant_b)
           ELSE ChosenRow(PreferenceRow(1, 2, k, r_variant_a, r_variant_b), <<"A">>, k - 1)]
    /\ NoNotifications

SpecThreshold == InitThreshold /\ [][NextPreferences]_vars

-----------------------------------------------------------------------------
(* Properties                                                              *)

\* the requests whose last pass of the loop deducted from a matched item
Deducted(p) == sess[p].out.kind \in {"converted", "fallback"}

\* the item the last pass of request p matched
MatchedItem(p) == sess[p].items[sess[p].out.item]

\* C1: every quantity the deduction step writes back to a matched record is
\* >= 0, for every requirement list, inventory and servings value (0 and
\* negative included), after any number of steps and calls.
C1_WrittenQuantityNonNegative ==
    \A p \in AllProcs :
        Deducted(p) =>
            /\ RLeq(RInt(0), sess[p].out.new)
            /\ MatchedItem(p).quantity = sess[p].out.new

\* a step whose deduction exceeded the stock and was floored at 0
C1_Witness ==
    \E p \in AllProcs :
        /\ Deducted(p)
        /\ RLess(RSub(sess[p].out.old, sess[p].out.amount), RInt(0))
        /\ MatchedItem(p).quantity = RInt(0)

CanonicalKeys == {UNIT_MAPPINGS[i][2] : i \in 1..Len(UNIT_MAPPINGS)}

WeightKeys == {Unit.g, Unit.kg, Unit.lb, Unit.oz}

VolumeKeys == {Unit.ml, Unit.l, Unit.cup, Unit.tbsp, Unit.tsp, Unit.floz}

\* the unit family of a canonical key: weight, volume, or the count key itself
FamilyOf(key) ==
    IF key \in WeightKeys THEN <<"weight">>
    ELSE IF key \in VolumeKeys THEN <<"volume">>
    ELSE key

\* both units are recognized and belong to the same family
SameRecognizedFamily(a, b) ==
    /\ normalize_unit(a) \in CanonicalKeys
    /\ normalize_unit(b) \in CanonicalKeys
    /\ FamilyOf(normalize_unit(a)) = FamilyOf(normalize_unit(b))

\* C2 as stated: the step falls back, deducting 1 x servings, exactly when the
\* two units are not in the same family or one of them is unrecognized.
C2_FallbackIffFamilyMismatch ==
    \A p \in AllProcs :
        Deducted(p) =>
            /\ (sess[p].out.kind = "fallback")
                   <=> ~SameRecognizedFamily(sess[p].out.parsed.unit, MatchedItem(p).unit)
            /\ sess[p].out.kind = "fallback" => sess[p].out.amount = RInt(sess[p].servings)

\* the two normalized units the conversion compares
UnitsConvert(from_u, to_u) ==
    /\ Truthy(from_u) /\ Truthy(to_u)
    /\ \/ from_u = to_u
       \/ from_u \in WeightKeys /\ to_u \in WeightKeys
       \/ from_u \in VolumeKeys /\ to_u \in VolumeKeys

\* C2, amended: the step falls back, deducting 1 x m (m the servings, or 1
\* when servings is 0), exactly when a normalized unit is missing or the two
\* normalized units differ and are not both weight or both volume units; two
\* equal units convert by identity even when the unit table knows neither.
C2_FallbackIffUnitsDoNotConvert ==
    \A p \in AllProcs :
        Deducted(p) =>
            LET m == IF sess[p].servings = 0 THEN 1 ELSE sess[p].servings
                from_u == normalize_unit(sess[p].out.parsed.unit)
                to_u == normalize_unit(MatchedItem(p).unit)
            IN  /\ (sess[p].out.kind = "fallback") <=> ~UnitsConvert(from_u, to_u)
                /\ sess[p].out.kind = "fallback" => sess[p].out.amount = RInt(m)
                /\ sess[p].out.kind = "converted" /\ from_u = to_u =>
                       sess[p].out.amount = RMul(sess[p].out.parsed.quantity, RInt(m))

\* a requirement in "sticks" deducted from an item in "Sticks" without fallback
C2_Witness ==
    \E p \in AllProcs :
        /\ sess[p].out.kind = "converted"
        /\ sess[p].out.parsed.unit = Text.s_sticks
        /\ sess[p].out.parsed.unit \notin CanonicalKeys
        /\ sess[p].out.amount = RInt(2 * sess[p].servings)

\* C3: a call whose servings is < 1 is rejected as a whole: it does not
\* succeed and no quantity of the caller's inventory changes.
C3_InvalidServingsRejected ==
    \A p \in AllProcs :
        sess[p].rid # 0 /\ sess[p].servings < 1 =>
            /\ resp[p] # 200
            /\ sess[p].items = sess[p].loaded

C5_UnknownTokenIsName ==
    (called /\ arg.fn = "parse_ingredient" /\ arg.form = "prefix"
        /\ ~HasKey(UNIT_MAPPINGS, Lower(arg.token))) =>
        /\ ret.quantity = parse_qty(arg.number)
        /\ ret.unit = Unit.pcs
        /\ ret.name = arg.token \o <<" ">> \o arg.rest

\* lines 397-423: the loop over the whole list, none of its entries raising
RECURSIVE DeductAll(_, _, _)
DeductAll(items, ingredients, servings) ==
    IF ingredients = <<>> THEN items
    ELSE DeductAll(DeductStep(items, Head(ingredients), servings).items,
                   Tail(ingredients), servings)

Orders(n) == {f \in [1..n -> 1..n] : \A i, j \in 1..n : i # j => f[i] # f[j]}

\* the entries the loop does not skip (line 399), and the lists of names of
\* the inventories of the model's users
UsableEntries == {e \in Entries : e.kind # "other" /\ Truthy(IngredientText(e))}

NameLists ==
    {ItemNames(SelectSeq(t, LAMBDA row : row.user_id = user)) :
        t \in InventoryChoices, user \in Users}

\* parse_ingredient (line 402) of every usable entry; an entry's parse and
\* match depend on no quantity, so each is computed once
ParsedEntry == [e \in UsableEntries |-> parse_ingredient(IngredientText(e))]

\* the position find_best_inventory_match (line 405) returns for every usable
\* entry and list of names, 0 for None
MatchedEntry ==
    [names \in NameLists |->
        [e \in UsableEntries |->
            find_best_inventory_match(names, ParsedEntry[e].name, DEFAULT_MIN_SCORE)[1]]]

\* the position of the item an entry is matched to, 0 when it has none
MatchOf(items, ing) ==
    IF ing \in UsableEntries THEN MatchedEntry[ItemNames(items)][ing] ELSE 0

\* the loop of lines 397-423 over a list in another order
RECURSIVE DeductInOrder(_, _, _)
DeductInOrder(items, ingredients, servings) ==
    IF ingredients = <<>> THEN items
    ELSE DeductInOrder(
             IF Head(ingredients) \in UsableEntries
             THEN DeductMatched(items, ParsedEntry[Head(ingredients)],
                                MatchOf(items, Head(ingredients)), servings).items
             ELSE items,
             Tail(ingredients), servings)

\* the deduction of an entry matched to the item at position k
AmountOf(items, ing, k, servings) ==
    DeductionAmount(ConvertedQty(ParsedEntry[ing], items[k]), servings)

\* the sum of the deductions of the entries matched to the item at position k
RECURSIVE SumMatched(_, _, _, _)
SumMatched(items, ingredients, k, servings) ==
    IF ingredients = <<>> THEN RInt(0)
    ELSE RAdd(IF MatchOf(items, Head(ingredients)) = k
              THEN AmountOf(items, Head(ingredients), k, servings) ELSE RInt(0),
              SumMatched(items, Tail(ingredients), k, servings))

C7_StepChangesOnlyBestMatch ==
    [][\A p \in AllProcs :
           (sess[p].pc = "loop" /\ sess'[p].i = sess[p].i + 1) =>
               /\ Len(sess'[p].items) = Len(sess[p].items)
               /\ \A k \in 1..Len(sess[p].items) :
                      sess'[p].items[k] # sess[p].items[k] =>
                          /\ sess'[p].out.kind \in {"converted", "fallback"}
                          /\ k = sess'[p].out.item
                          /\ k = find_best_inventory_match(ItemNames(sess[p].items),
                                     sess'[p].out.parsed.name, DEFAULT_MIN_SCORE)[1]
                          /\ sess'[p].items[k] =
                                 [sess[p].items[k] EXCEPT !.quantity = sess'[p].items[k].quantity]
               /\ sess'[p].out.kind \in {"nomatch", "empty"} => sess'[p].items = sess[p].items
               /\ sess'[p].pc \in {"loop", "commit"}
               /\ inventory' = inventory]_vars

\* a pass that deducted from one of several records, and a pass without match
C7_Witness ==
    \E p \in AllProcs :
        /\ sess[p].i = 3
        /\ sess[p].out.kind = "nomatch"
        /\ Len(sess[p].items) > 1
        /\ \E k \in 1..Len(sess[p].items) :
               sess[p].items[k].quantity # sess[p].loaded[k].quantity

\* C8: every mark-cooked call on a recipe the caller owns ends with status 200
\* and is_cooked persisted, whatever the entries of main_ingredients are.
C8_AlwaysMarkedCooked ==
    \A p \in AllProcs :
        sess[p].pc = "done" /\ sess[p].rid # 0 =>
            /\ resp[p] = 200
            /\ history[sess[p].rid].is_cooked

\* C9: when two mark-cooked calls of one user have both committed, however
\* their steps interleaved, the committed quantities are those of running one
\* call after the other.
C9_InterleavingEqualsSerial ==
    (\A p \in AllProcs :
        /\ sess[p].pc = "done" /\ resp[p] = 200
        /\ sess[p].user = 1 /\ sess[p].loaded # <<>>) =>
        \E p, q \in AllProcs :
            /\ p # q
            /\ UserInventory(1) =
                   DeductAll(DeductAll(sess[p].loaded, sess[p].ingredients, sess[p].servings),
                             sess[q].ingredients, sess[q].servings)

\* the similarity of every record with the requirement's name
Scores(items, name) == [k \in 1..Len(items) |-> similarity(items[k], norm_text(name))]

\* the first position whose score no other position exceeds
FirstMax(scores) ==
    SetMin({k \in 1..Len(scores) : \A j \in 1..Len(scores) : RLeq(scores[j], scores[k])})

C11_ConvertUnitReference ==
    (called /\ arg.fn = "convert_unit") =>
        LET from_u == normalize_unit(arg.from)
            to_u == normalize_unit(arg.to)
        IN  ret = IF ~Truthy(from_u) \/ ~Truthy(to_u) THEN None
                  ELSE IF from_u = to_u THEN arg.qty
                  ELSE IF from_u \in WeightKeys /\ to_u \in WeightKeys
                       THEN RDiv(RMul(arg.qty, Factor(WEIGHT_TO_G, from_u)),
                                 Factor(WEIGHT_TO_G, to_u))
                  ELSE IF from_u \in VolumeKeys /\ to_u \in VolumeKeys
                       THEN RDiv(RMul(arg.qty, Factor(VOLUME_TO_ML, from_u)),
                                 Factor(VOLUME_TO_ML, to_u))
                  ELSE None

\* one "LBS" converted to "oz" through grams: 453.592 / 28.3495
C11_Witness ==
    /\ called /\ arg.fn = "convert_unit"
    /\ arg.from = Text.t_LBS /\ arg.to = Unit.oz /\ arg.qty = RInt(1)
    /\ ret = Rat(4535920, 283495)

\* C12: normalize_unit is idempotent for every input: known spellings in any
\* case, unknown words, the empty string, the missing value and strings of
\* blanks (which yield None).
C12_NormalizeIdempotent ==
    (called /\ arg.fn = "normalize_unit") =>
        /\ arg.again => ret = arg.unit
        /\ ~arg.again /\ Strip(arg.unit) = <<>> => ret = None

\* C13: for a text without any digit (punctuation such as "." or "/"
\* included) parse_ingredient returns quantity 1.0, unit "pcs" and the
\* trimmed text as the name.
C13_NoQuantityDefaults ==
    (called /\ arg.fn = "parse_ingredient" /\ arg.form = "text"
        /\ \A i \in 1..Len(arg.text) : arg.text[i] \notin Digits) =>
        ret = Triple(RInt(1), Unit.pcs, Strip(arg.text))

\* the leftmost place where a run of quantity characters, blanks or none, and
\* a letter follow one another
FirstNumberUnit(t) ==
    CHOOSE i \in 1..Len(t) :
        /\ InlineAt(t, i)
        /\ \A j \in 1..(i - 1) : ~InlineAt(t, j)

\* the run of quantity characters that starts at position i
NumberAt(t, i) == SubSeq(t, i, i + RunQty(t, i) - 1)

\* the run of letters after the number at position i and the blanks behind it
UnitAt(t, i) ==
    SubSeq(t, i + RunQty(t, i) + RunSpace(t, i + RunQty(t, i)),
           i + RunQty(t, i) + RunSpace(t, i + RunQty(t, i))
             + RunLetter(t, i + RunQty(t, i) + RunSpace(t, i + RunQty(t, i))) - 1)

\* C16: the rules are tried in order and the first that matches decides: the
\* prefix rule when it matches, else the parenthetical rule when it matches,
\* and only when neither matches the inline rule, which takes quantity and
\* unit from the first "<number> <unit>" of the text and keeps the whole
\* trimmed text as the name.
C16_RuleOrder ==
    (called /\ arg.fn = "parse_ingredient" /\ arg.form = "text") =>
        LET t == Strip(arg.text)
        IN  /\ PrefixMatch(t) # None =>
                   /\ ret.quantity = parse_qty(PrefixMatch(t)[1])
                   /\ ret.name = Strip(PrefixMatch(t)[3])
            /\ PrefixMatch(t) = None /\ ParenMatch(t) # None =>
                   /\ ret.quantity = parse_qty(ParenMatch(t)[2])
                   /\ ret.unit = normalize_unit(ParenMatch(t)[3])
                   /\ ret.name = Strip(ParenMatch(t)[1])
            /\ (/\ PrefixMatch(t) = None /\ ParenMatch(t) = None
                /\ \E i \in 1..Len(t) : InlineAt(t, i)) =>
                   /\ ret.quantity = parse_qty(NumberAt(t, FirstNumberUnit(t)))
                   /\ ret.unit = normalize_unit(UnitAt(t, FirstNumberUnit(t)))
                   /\ ret.name = t

\* a text that the parenthetical rule decides although the inline rule
\* matches it too, and a text that only the inline rule matches
C16_Witness ==
    /\ called /\ arg.fn = "parse_ingredient" /\ arg.form = "text"
    /\ PrefixMatch(Strip(arg.text)) = None
    /\ \E i \in 1..Len(Strip(arg.text)) : InlineAt(Strip(arg.text), i)
    /\ \/ ParenMatch(Strip(arg.text)) # None /\ ret.name # Strip(arg.text)
       \/ ParenMatch(Strip(arg.text)) = None /\ ret.name = Strip(arg.text)
                                             /\ ret.unit = Unit.g

\* the number token the deciding rule captured, None when no rule matches
NumberToken(t) ==
    IF PrefixMatch(t) # None THEN PrefixMatch(t)[1]
    ELSE IF ParenMatch(t) # None THEN ParenMatch(t)[2]
    ELSE IF InlineMatch(t) # None THEN InlineMatch(t)[1]
    ELSE None

\* digits with at most one "." among them
IsDecimal(s) ==
    /\ \E i \in 1..Len(s) : s[i] \in Digits
    /\ \A i \in 1..Len(s) : s[i] \in Digits \cup {"."}
    /\ \A i, j \in 1..Len(s) : s[i] = "." /\ s[j] = "." => i = j

\* a decimal that is not zero
IsNonZeroDecimal(s) == IsDecimal(s) /\ \E i \in 1..Len(s) : s[i] \in Digits \ {"0"}

\* a number token that is an integer, a decimal, or a/b with b not zero
WellFormedNumber(s) ==
    \/ IsDecimal(s)
    \/ \E k \in 1..Len(s) :
           /\ s[k] = "/"
           /\ IsDecimal(SubSeq(s, 1, k - 1))
           /\ IsNonZeroDecimal(SubSeq(s, k + 1, Len(s)))

\* C17: parse_ingredient returns a (quantity, unit, name) triple for every
\* text and never raises; a malformed number token (division by zero, more
\* than one slash, a lone "." or "/") gives quantity 1.0.
C17_TotalWithFallbackQuantity ==
    (called /\ arg.fn = "parse_ingredient" /\ arg.form = "text") =>
        /\ DOMAIN ret = {"quantity", "unit", "name"}
        /\ ret.quantity # None /\ ret.unit # None /\ ret.name # None
        /\ ret = parse_ingredient(arg.text)
        /\ (NumberToken(Strip(arg.text)) # None
               /\ ~WellFormedNumber(NumberToken(Strip(arg.text)))) =>
               ret.quantity = RInt(1)

\* a number token that divides by zero
C17_Witness ==
    /\ called /\ arg.fn = "parse_ingredient" /\ arg.form = "text"
    /\ NumberToken(Strip(arg.text)) = <<"2", "/", "0">>
    /\ ret.quantity = RInt(1)

\* C18: every triple parse_ingredient returns has quantity >= 0, a non-empty
\* unit and a trimmed, non-empty name.
C18_ResultInvariants ==
    (called /\ arg.fn = "parse_ingredient" /\ arg.form = "text") =>
        /\ RLeq(RInt(0), ret.quantity)
        /\ ret.unit # <<>>
        /\ ret.name = Strip(ret.name)
        /\ ret.name # <<>>

\* the values of the number texts of ParseNumbers; "1/0" is malformed and
\* counts as 1.0
NumberValue(n) ==
    CASE n = Text.t_2 -> RInt(2)
      [] n = Text.t_half -> Rat(1, 2)
      [] n = Text.t_2_5 -> Rat(5, 2)
      [] n = Text.t_1_0 -> RInt(1)

\* the token is a spelling of the unit table
KnownSpelling(token) == HasKey(UNIT_MAPPINGS, Lower(token))

\* the token is one word
OneWord(token) == \A i \in 1..Len(token) : IsLetter(token[i])

\* C14: for "<number> <unit> <rest>" with an integer, decimal or a/b
\* number and a known unit spelling in any case, parse_ingredient returns the
\* number's value, the unit's canonical key and the trimmed rest.
C14_PrefixWithKnownUnit ==
    (called /\ arg.fn = "parse_ingredient" /\ arg.form = "prefix"
        /\ WellFormedNumber(arg.number) /\ KnownSpelling(arg.token)) =>
        ret = Triple(NumberValue(arg.number), Lookup(UNIT_MAPPINGS, Lower(arg.token)),
                     Strip(arg.rest))

\* C15: for "<name>(<number> <unit> ...)" the name is the trimmed text before
\* the parenthesis, and quantity and unit come from inside the parenthesis by
\* the number and unit rules of the prefix rule: the canonical key of a known
\* unit token, "pcs" for a token that is no known unit.
C15_ParentheticalLikePrefix ==
    (called /\ arg.fn = "parse_ingredient" /\ arg.form = "paren") =>
        /\ ret.name = Strip(arg.rest)
        /\ ret.quantity = NumberValue(arg.number)
        /\ ret.unit = IF KnownSpelling(arg.token) /\ OneWord(arg.token)
                      THEN Lookup(UNIT_MAPPINGS, Lower(arg.token))
                      ELSE Unit.pcs

\* whether a occurs in b as a run of consecutive characters
IsSubstring(a, b) ==
    \E i \in 1..(Len(b) - Len(a) + 1) : SubSeq(b, i, i + Len(a) - 1) = a

\* one of the two normalized, non-empty names occurs in the other
OneContainsOther(x, y) ==
    /\ norm_text(x) # <<>> /\ norm_text(y) # <<>>
    /\ \/ IsSubstring(norm_text(x), norm_text(y))
       \/ IsSubstring(norm_text(y), norm_text(x))

ShorterLen(x, y) ==
    IF Len(norm_text(x)) <= Len(norm_text(y)) THEN Len(norm_text(x)) ELSE Len(norm_text(y))

LongerLen(x, y) ==
    IF Len(norm_text(x)) <= Len(norm_text(y)) THEN Len(norm_text(y)) ELSE Len(norm_text(x))

StoredCount(table, user) ==
    IF table[user] = <<>> THEN 0
    ELSE IF table[user][1].recipe_generation_count = <<>> THEN 0
    ELSE table[user][1].recipe_generation_count[1]

\* C20: a successful generate call raises the user's recipe_generation_count
\* by exactly 1 (a missing row or count counting as 0); it is a comparison
\* exactly when the compare flag is set or the new count is a multiple of 7; a
\* comparison stores one RecipePreference with both variants and no
\* RecipeHistory; a single-mode call stores one RecipeHistory and no
\* RecipePreference.
C20_GenerateCountsAndModes ==
    [][(ncalls' = ncalls + 1 /\ arg'.fn = "generate" /\ ret'.status = 200) =>
          /\ profiles'[arg'.user] # <<>>
          /\ profiles'[arg'.user][1].recipe_generation_count # <<>>
          /\ StoredCount(profiles', arg'.user) = StoredCount(profiles, arg'.user) + 1
          /\ ret'.generation_count = StoredCount(profiles', arg'.user)
          /\ \A u \in Users \ {arg'.user} : profiles'[u] = profiles[u]
          /\ ret'.mode \in {"comparison", "single"}
          /\ (ret'.mode = "comparison") <=>
                 (arg'.compare \/ StoredCount(profiles', arg'.user) % 7 = 0)
          /\ ret'.mode = "comparison" =>
                 /\ history' = history
                 /\ Len(preferences') = Len(preferences) + 1
                 /\ SubSeq(preferences', 1, Len(preferences)) = preferences
                 /\ preferences'[Len(preferences')].user_id = arg'.user
                 /\ preferences'[Len(preferences')].variant_a = r_variant_a
                 /\ preferences'[Len(preferences')].variant_b = r_variant_b
          /\ ret'.mode = "single" =>
                 /\ preferences' = preferences
                 /\ Len(history') = Len(history) + 1
                 /\ SubSeq(history', 1, Len(history)) = history
                 /\ history'[Len(history')].user_id = arg'.user]_vars

\* the 7th generation of a user who did not ask for a comparison, after a
\* single-mode generation
C20_Witness ==
    /\ called /\ arg.fn = "generate" /\ ~arg.compare
    /\ ret.status = 200 /\ ret.mode = "comparison" /\ ret.generation_count = 7
    /\ Len(preferences) = 1 /\ Len(history) = 1
    /\ preferences[1].generation_number = 7

\* C23: norm_text returns its input lower-cased, every character other than a
\* letter, a digit or whitespace replaced by a space, trimmed, and every run
\* of whitespace collapsed to one space.
C23_NormTextCollapsesWhitespace ==
    (called /\ arg.fn = "norm_text") =>
        LET low == Lower(arg.s)
            spaced == Strip([i \in 1..Len(low) |->
                                IF low[i] \in LowerLetters \cup Digits THEN low[i] ELSE " "])
            kept == {i \in 1..Len(spaced) : spaced[i] # " " \/ spaced[i - 1] # " "}
        IN  /\ Len(ret) = Cardinality(kept)
            /\ \A i \in kept : ret[Cardinality({j \in kept : j <= i})] = spaced[i]

\* C24: a mark-cooked call that fails partway through the ingredient list
\* persists nothing: the tables change only in the commit step of a call that
\* answers 200, and the step that fails leaves them as they are.
C24_FailedCallPersistsNothing ==
    [][/\ (inventory' # inventory \/ history' # history) =>
              (sess[1].pc = "commit" /\ sess'[1].pc = "done" /\ resp'[1] = 200)
       /\ (resp'[1] = 500 /\ sess[1].pc = "loop") =>
              (inventory' = inventory /\ history' = history)]_vars

\* a call that failed at a later entry after a deduction was computed for an
\* earlier one: the tables hold neither the deduction nor is_cooked
C24_Witness ==
    /\ resp[1] = 500 /\ sess[1].pc = "done" /\ sess[1].i = 2
    /\ sess[1].items # sess[1].loaded
    /\ UserInventory(sess[1].user) = sess[1].loaded
    /\ ~history[sess[1].rid].is_cooked

\* C26: a mark-cooked call on a recipe whose is_cooked is already true leaves
\* every inventory quantity unchanged (stated for recipes of one serving or
\* more).
C26_SecondCallLeavesInventory ==
    [][(/\ sess[1].pc = "commit"
        /\ history[sess[1].rid].is_cooked
        /\ history[sess[1].rid].servings >= 1) =>
           inventory' = inventory]_vars

\* C28: mark_recipe_cooked changes only inventory rows and the history row of
\* the caller; a call that is not answered 404 is for a recipe of the caller,
\* and a call answered 404 changes no row.
C28_OnlyCallersRows ==
    [][/\ Len(inventory') = Len(inventory) /\ Len(history') = Len(history)
       /\ \A k \in 1..Len(inventory) :
              inventory'[k] # inventory[k] =>
                  (inventory[k].user_id = sess[1].user /\ resp'[1] = 200)
       /\ \A r \in 1..Len(history) :
              history'[r] # history[r] =>
                  (history[r].user_id = sess[1].user /\ r = sess[1].rid)
       /\ (ncalls' = ncalls + 1 /\ resp'[1] # 404) =>
              /\ sess'[1].rid \in 1..Len(history)
              /\ history[sess'[1].rid].user_id = sess'[1].user
       /\ (ncalls' = ncalls + 1 /\ resp'[1] = 404) =>
              (inventory' = inventory /\ history' = history)]_vars

\* a recipe of user 1 with "2 sticks butter" was cooked: the butter of user 1
\* was deducted, the butter of user 2, which comes first in the table, was not
C28_Witness ==
    /\ resp[1] = 200 /\ sess[1].user = 1 /\ history[1].is_cooked
    /\ sess[1].out.kind \in {"converted", "fallback"}
    /\ Len(inventory) = 4
    /\ inventory[2].user_id = 2 /\ inventory[2].quantity = RInt(9)
    /\ inventory[4].user_id = 1 /\ inventory[4].quantity # RInt(4)

\* the notifications of a user with training_started = false
Pending(table, user_id) ==
    {k \in 1..Len(table) : table[k].user_id = user_id /\ ~table[k].training_started}

\* C22: check_and_notify_threshold sends no alert, records no notification
\* and returns None when feedback_count < 50, or preference_count < 50, or
\* satisfaction_ratio >= 0.70, or the user has a notification with
\* training_started = false; otherwise it calls send_slack_alert once and
\* records exactly one notification.  Over sequential calls and approvals a
\* user never has two notifications with training_started = false.
C22_NotifyOnlyPastThresholds ==
    [][/\ (ncalls' = ncalls + 1 /\ arg'.fn = "check_and_notify_threshold") =>
              IF \/ arg'.feedback_count < 50
                 \/ arg'.preference_count < 50
                 \/ RLeq(Rat(7, 10), arg'.satisfaction_ratio)
                 \/ Pending(notifications, arg'.user_id) # {}
              THEN alerts' = alerts /\ notifications' = notifications /\ ret' = None
              ELSE /\ alerts' = Append(alerts, [user_id |-> arg'.user_id, sent |-> arg'.sent])
                   /\ Len(notifications') = Len(notifications) + 1
                   /\ SubSeq(notifications', 1, Len(notifications)) = notifications
                   /\ notifications'[Len(notifications')].user_id = arg'.user_id
                   /\ ~notifications'[Len(notifications')].training_started
                   /\ ret' = IF arg'.sent THEN <<"True">> ELSE <<"False">>
       /\ \A u \in Users : Cardinality(Pending(notifications', u)) <= 1]_vars

\* a second notification of user 1 was recorded after the first was approved
C22_Witness ==
    /\ called /\ arg.fn = "check_and_notify_threshold" /\ arg.user_id = 1
    /\ Len(notifications) = 2 /\ Len(alerts) = 2
    /\ notifications[1].training_started /\ ~notifications[2].training_started
    /\ ret = <<"True">>

\* C29: an alert that failed to send is retried: a call for a user whose
\* thresholds are met and whose alerts so far all failed calls
\* send_slack_alert again.
C29_FailedAlertIsRetried ==
    [][(/\ ncalls' = ncalls + 1 /\ arg'.fn = "check_and_notify_threshold"
        /\ arg'.feedback_count >= 50 /\ arg'.preference_count >= 50
        /\ RLess(arg'.satisfaction_ratio, Rat(7, 10))
        /\ \A k \in 1..Len(alerts) : alerts[k].user_id = arg'.user_id => ~alerts[k].sent) =>
           Len(alerts') = Len(alerts) + 1]_vars

C25_QuantityNeverIncreases ==
    [][\A k \in 1..Len(inventory) :
           RLeq(RInt(0), inventory[k].quantity) =>
               RLeq(inventory'[k].quantity, inventory[k].quantity)]_vars

\* C30: a choose or skip call on a preference that was already chosen or
\* skipped changes none of chosen_variant, rejected_variant and skipped and
\* adds no RecipeHistory.
C30_ResolvedAtMostOnce ==
    [][(/\ called' /\ ncalls' = ncalls + 1
        /\ arg'.fn \in {"choose", "skip"} /\ arg'.call = ncalls'
        /\ arg'.preference_id \in 1..Len(preferences)
        /\ \/ preferences[arg'.preference_id].chosen_variant # None
           \/ preferences[arg'.preference_id].skipped = "TRUE") =>
           /\ preferences'[arg'.preference_id].chosen_variant
                  = preferences[arg'.preference_id].chosen_variant
           /\ preferences'[arg'.preference_id].rejected_variant
                  = preferences[arg'.preference_id].rejected_variant
           /\ preferences'[arg'.preference_id].skipped
                  = preferences[arg'.preference_id].skipped
           /\ history' = history]_vars

\* C27: a choose call after which the user has chosen a variant on at least 50
\* preferences, has at least 50 feedback entries with a liked ratio below
\* 0.70, and had no pending notification, records a RetrainingNotification
\* and calls send_slack_alert.
C27_ChoicesReachThreshold ==
    [][(/\ called' /\ ncalls' = ncalls + 1 /\ arg'.fn = "choose" /\ arg'.call = ncalls'
        /\ ret'.status = 200
        /\ Cardinality({k \in 1..Len(preferences') :
               /\ preferences'[k].user_id = arg'.user
               /\ preferences'[k].chosen_variant # None
               /\ preferences'[k].skipped # "TRUE"}) >= 50
        /\ FeedbackCount(history', arg'.user, {1, 2}) >= 50
        /\ RLess(SatisfactionRatio(history', arg'.user), Rat(7, 10))
        /\ Pending(notifications, arg'.user) = {}) =>
           /\ Len(notifications') = Len(notifications) + 1
           /\ Len(alerts') = Len(alerts) + 1]_vars

====
